---------------------------- MODULE Spec2Model ----------------------------
(***************************************************************************)
(* playback: replay of a recorded access log (src/main.rs).                *)
(*                                                                         *)
(* The module models the front end (main), the shift parser                *)
(* (TimeType::from_str, parse_time), the decoder (resolve_log_file,        *)
(* resolve_log_text, Log::try_from) and the dispatch engine                *)
(* (send_requests, schedule_request) with its spawned tasks.               *)
(*                                                                         *)
(* A &str is a sequence of characters; each character is a one-character   *)
(* TLA+ string.  A u64 is a sequence of NLimbs limbs in base Base, least   *)
(* significant limb first, so that 64-bit overflow is computed exactly.    *)
(***************************************************************************)
EXTENDS Integers, Sequences, FiniteSets, TLC

(***************************************************************************)
(* Bounds of the model.                                                    *)
(***************************************************************************)
\* longest shift expression enumerated character by character
MaxLen == 3
\* largest number of records in one input text
MaxLogs == 2
\* the clock stops advancing at this value
MaxTime == 3

(***************************************************************************)
(* u64 arithmetic (the number carried by TimeType, main.rs:213-217).       *)
(***************************************************************************)
Base == 65536
NLimbs == 4

Zero64 == [i \in 1..NLimbs |-> 0]

\* x * k + c over the limbs of x; the result has one more limb than x,
\* the last one being the carry out of the most significant limb.
RECURSIVE MulLimbs(_, _, _)
MulLimbs(x, k, c) ==
    IF x = <<>> THEN <<c>>
    ELSE LET v == Head(x) * k + c
         IN  <<v % Base>> \o MulLimbs(Tail(x), k, v \div Base)

\* the number without its most significant zero limbs
RECURSIVE Normalize(_)
Normalize(x) ==
    IF x # <<>> /\ x[Len(x)] = 0 THEN Normalize(SubSeq(x, 1, Len(x) - 1)) ELSE x

\* the u64 x as a natural number (defined by the positional value of its limbs)
RECURSIVE LimbsToNat(_)
LimbsToNat(x) == IF x = <<>> THEN 0 ELSE Head(x) + Base * LimbsToNat(Tail(x))

\* x < y for two numbers of the same number of limbs
RECURSIVE LimbsLess(_, _)
LimbsLess(x, y) ==
    IF x = <<>> THEN FALSE
    ELSE LET n == Len(x)
         IN  \/ x[n] < y[n]
             \/ x[n] = y[n] /\ LimbsLess(SubSeq(x, 1, n - 1), SubSeq(y, 1, n - 1))

(***************************************************************************)
(* Characters and strings.                                                 *)
(***************************************************************************)
DigitChars == {"0", "1", "2", "3", "4", "5", "6", "7", "8", "9"}

DigitValue(c) ==
    CASE c = "0" -> 0 [] c = "1" -> 1 [] c = "2" -> 2 [] c = "3" -> 3
      [] c = "4" -> 4 [] c = "5" -> 5 [] c = "6" -> 6 [] c = "7" -> 7
      [] c = "8" -> 8 [] c = "9" -> 9

\* number of bytes of the UTF-8 encoding of a character of the model's alphabet
Utf8Len(c) == IF c = "é" THEN 2 ELSE 1

\* str::len: the length of a string in bytes
RECURSIVE ByteLen(_)
ByteLen(s) == IF s = <<>> THEN 0 ELSE Utf8Len(Head(s)) + ByteLen(Tail(s))

\* str::is_char_boundary
IsCharBoundary(s, idx) == \E n \in 0..Len(s) : ByteLen(SubSeq(s, 1, n)) = idx

\* the characters of s[0..idx], idx a character boundary
SliceTo(s, idx) ==
    LET n == CHOOSE m \in 0..Len(s) : ByteLen(SubSeq(s, 1, m)) = idx
    IN  SubSeq(s, 1, n)

(***************************************************************************)
(* str::parse::<u64>() as used at main.rs:230: an optional leading '+',    *)
(* then at least one decimal digit, accumulated with checked_mul(10) and   *)
(* checked_add(digit).                                                     *)
(***************************************************************************)
RECURSIVE AccumulateDigits(_, _)
AccumulateDigits(acc, ds) ==
    IF ds = <<>> THEN [kind |-> "ok", number |-> acc]
    ELSE IF Head(ds) \notin DigitChars THEN [kind |-> "err", error |-> "InvalidDigit"]
    ELSE LET r == MulLimbs(acc, 10, DigitValue(Head(ds)))
         IN  IF r[NLimbs + 1] # 0 THEN [kind |-> "err", error |-> "PosOverflow"]
             ELSE AccumulateDigits(SubSeq(r, 1, NLimbs), Tail(ds))

ParseU64(s) ==
    IF s = <<>> THEN [kind |-> "err", error |-> "Empty"]
    ELSE IF s = <<"+">> \/ s = <<"-">> THEN [kind |-> "err", error |-> "InvalidDigit"]
    ELSE IF Head(s) = "+" THEN AccumulateDigits(Zero64, Tail(s))
    ELSE AccumulateDigits(Zero64, s)

(***************************************************************************)
(* TimeType::from_str (main.rs:224-242).  "abort" is the panic of the      *)
(* slice s[0..(s.len() - 1)] when s.len() - 1 is not a character boundary. *)
(***************************************************************************)
UnitChars == {"s", "m", "h", "d", "w"}

SliceAborts(s) == ~IsCharBoundary(s, ByteLen(s) - 1)

TimeTypeFromStr(s) ==
    IF s = <<>> THEN [kind |-> "err", error |-> "invalid shift time"]
    ELSE LET tail == s[Len(s)]
         IN  IF SliceAborts(s) THEN [kind |-> "abort"]
             ELSE LET number == ParseU64(SliceTo(s, ByteLen(s) - 1))
                  IN  IF number.kind = "err" THEN number
                      ELSE IF tail \in UnitChars
                           THEN [kind |-> "ok", unit |-> tail, number |-> number.number]
                           ELSE [kind |-> "err", error |-> "invalid shift time"]

(***************************************************************************)
(* parse_time (main.rs:270-280).  The products are computed left to right  *)
(* in u64: t * 60 * 60 * 24 * 7.  An overflowing product panics in a build *)
(* with overflow checks and wraps modulo 2^64 in a build without them;     *)
(* both outcomes are possible.                                             *)
(***************************************************************************)
UnitFactors(unit) ==
    CASE unit = "s" -> <<>>
      [] unit = "m" -> <<60>>
      [] unit = "h" -> <<60, 60>>
      [] unit = "d" -> <<60, 60, 24>>
      [] unit = "w" -> <<60, 60, 24, 7>>

\* the wrapping product of t by the factors, with whether any step overflowed
RECURSIVE MulChain(_, _, _)
MulChain(t, fs, overflowed) ==
    IF fs = <<>> THEN [secs |-> t, overflowed |-> overflowed]
    ELSE LET r == MulLimbs(t, Head(fs), 0)
         IN  MulChain(SubSeq(r, 1, NLimbs), Tail(fs), overflowed \/ r[NLimbs + 1] # 0)

\* the set of results parse_time(s) can produce
ParseTime(s) ==
    LET tt == TimeTypeFromStr(s)
    IN  IF tt.kind # "ok" THEN {tt}
        ELSE LET p == MulChain(tt.number, UnitFactors(tt.unit), FALSE)
             IN  IF p.overflowed
                 THEN {[kind |-> "abort"], [kind |-> "ok", secs |-> p.secs]}
                 ELSE {[kind |-> "ok", secs |-> p.secs]}


(***************************************************************************)
(* The decoder: Log::try_from (main.rs:150-183) and resolve_log_text       *)
(* (main.rs:191-202).  The texts of the fields are the ones of the model's *)
(* inputs; each parser is the table of what it returns on them.            *)
(***************************************************************************)
\* NaiveDateTime::parse_from_str(text, "%Y-%m-%d %H:%M:%S%.f UTC"), in seconds
ParseDateTime(text) ==
    CASE text = "1970-01-01 00:00:01 UTC" -> [kind |-> "ok", secs |-> 1]
      [] text = "1970-01-01 00:00:02.000 UTC" -> [kind |-> "ok", secs |-> 2]
      [] OTHER -> [kind |-> "err", error |-> "Date and time format is not correct"]

\* reqwest::Url::parse
UrlParse(text) ==
    IF text \in {"https://x.test/a", "https://x.test/b"}
    THEN [kind |-> "ok", url |-> text]
    ELSE [kind |-> "err", error |-> "url format is not correct"]

\* Method::from_bytes
MethodFromBytes(text) ==
    IF text \in {"GET", "POST"}
    THEN [kind |-> "ok", method |-> text]
    ELSE [kind |-> "err", error |-> "Method is not correct"]

TryFromJsonLog(json_log) ==
    LET dt == ParseDateTime(json_log.accessed_at)
        url == UrlParse(json_log.url)
        http_method == MethodFromBytes(json_log.http_method)
    IN  IF dt.kind = "err" THEN dt
        ELSE IF url.kind = "err" THEN url
        ELSE IF http_method.kind = "err" THEN http_method
        ELSE [kind |-> "ok",
              log |-> [accessed_at |-> dt.secs,
                       url |-> url.url,
                       http_method |-> http_method.method,
                       http_header |-> json_log.http_header,
                       http_body |-> json_log.http_body]]

\* a decoder that leaves out the records it cannot build
RECURSIVE DecodeLoopSkipping(_, _)
DecodeLoopSkipping(json_logs, logs) ==
    IF json_logs = <<>> THEN [kind |-> "ok", logs |-> logs]
    ELSE LET log == TryFromJsonLog(Head(json_logs))
         IN  IF log.kind = "err" THEN DecodeLoopSkipping(Tail(json_logs), logs)
             ELSE DecodeLoopSkipping(Tail(json_logs), Append(logs, log.log))

\* a decoder that puts each record it builds in front of the earlier ones
RECURSIVE DecodeLoopPrepending(_, _)
DecodeLoopPrepending(json_logs, logs) ==
    IF json_logs = <<>> THEN [kind |-> "ok", logs |-> logs]
    ELSE LET log == TryFromJsonLog(Head(json_logs))
         IN  IF log.kind = "err" THEN log
             ELSE DecodeLoopPrepending(Tail(json_logs), <<log.log>> \o logs)

\* main.rs:194-201: the loop of resolve_log_text
RECURSIVE DecodeLoop(_, _)
DecodeLoop(json_logs, logs) ==
    IF json_logs = <<>> THEN [kind |-> "ok", logs |-> logs]
    ELSE LET log == TryFromJsonLog(Head(json_logs))
         IN  IF log.kind = "err" THEN log
             ELSE DecodeLoop(Tail(json_logs), Append(logs, log.log))

\* a text is either not JSON of the expected shape or an array of objects
ResolveLogText(log_text) ==
    IF ~log_text.json THEN [kind |-> "err", error |-> "serde_json"]
    ELSE DecodeLoop(log_text.json_logs, <<>>)

\* std::fs::read_to_string fails, or the text read is decoded as above
ResolveLogFile(readable, log_text) ==
    IF ~readable THEN [kind |-> "err", error |-> "io"]
    ELSE ResolveLogText(log_text)

(***************************************************************************)
(* The inputs of the model.                                                *)
(***************************************************************************)
JsonLog(accessed_at, url, http_method, http_header, http_body) ==
    [accessed_at |-> accessed_at, url |-> url, http_method |-> http_method,
     http_header |-> http_header, http_body |-> http_body]

JsonRecords ==
    { JsonLog("1970-01-01 00:00:01 UTC", "https://x.test/a", "GET", {}, ""),
      JsonLog("1970-01-01 00:00:02.000 UTC", "https://x.test/b", "POST",
              {<<"accept", "*/*">>}, "x"),
      JsonLog("1970-01-01 00:00:01 UTC", "https://x.test/a", "GET",
              {<<"bad name", "v">>}, ""),
      JsonLog("not-a-date", "https://x.test/a", "GET", {}, ""),
      JsonLog("1970-01-01 00:00:01 UTC", "x.test/a", "GET", {}, ""),
      JsonLog("1970-01-01 00:00:01 UTC", "https://x.test/a", "BAD METHOD", {}, "") }

SeqsUpTo(S, n) == UNION { [1..k -> S] : k \in 0..n }

LogTexts ==
    { [json |-> FALSE, json_logs |-> <<>>] }
    \cup { [json |-> TRUE, json_logs |-> js] : js \in SeqsUpTo(JsonRecords, MaxLogs) }

\* Option<&str>: <<>> is None, <<s>> is Some(s)
None == <<>>
Some(v) == <<v>>

\* the values of --shift given to a run of main
ShiftArgs == { None, Some(<<"1", "s">>), Some(<<"2">>), Some(<<"2", "é">>) }

\* the shift expressions given to parse_time alone
Alphabet == {"0", "1", "9", "s", "m", "h", "d", "w", "t", ".", "-", "+", "é"}

\* 18446744073709551615 = 2^64 - 1
U64MaxDigits ==
    <<"1","8","4","4","6","7","4","4","0","7","3","7","0","9","5","5","1","6","1","5">>
\* 2^64
U64OverDigits ==
    <<"1","8","4","4","6","7","4","4","0","7","3","7","0","9","5","5","1","6","1","6">>
\* 307445734561825861 = floor((2^64 - 1) / 60) + 1
MinuteOverDigits ==
    <<"3","0","7","4","4","5","7","3","4","5","6","1","8","2","5","8","6","1">>
\* 307445734561825860 = floor((2^64 - 1) / 60)
MinuteMaxDigits ==
    <<"3","0","7","4","4","5","7","3","4","5","6","1","8","2","5","8","6","0">>

LongInputs ==
    { ds \o <<u>> : ds \in {U64MaxDigits, U64OverDigits, MinuteOverDigits, MinuteMaxDigits},
                    u \in UnitChars \cup {"t"} }
    \cup { <<"1", "d", "2", "h">>, <<"1", ".", "5", "s">> }

ParseInputs == SeqsUpTo(Alphabet, MaxLen) \cup LongInputs

(***************************************************************************)
(* The state.                                                              *)
(***************************************************************************)
VARIABLES
    args,          \* matches: file, access_log (given or not), shift (Option)
    pc,            \* the position of main
    source,        \* which input main resolved: "none", "file" or "text"
    resolved,      \* Option of what was resolved: the text and whether it could be read
    logs,          \* the decoded records
    shift_time,    \* Option of the u64 seconds returned by parse_time
    shifted_logs,  \* the records handed to send_requests
    tasks,         \* the spawned tasks, by index of their record
    idx,           \* the index of the loops of send_requests
    now,           \* the clock, in seconds
    output,        \* the lines printed about the records (responses, and the
                   \* panic messages of tasks) and about a usage error
    exit_code      \* the exit status of the process, -1 while it runs

vars == <<args, pc, source, resolved, logs, shift_time, shifted_logs, tasks, idx, now,
          output, exit_code>>


(***************************************************************************)
(* chrono and tokio helpers used by main and schedule_request.             *)
(***************************************************************************)
\* i64::MAX / 1000 = 9223372036854775 seconds, the largest chrono::Duration
ChronoMaxSecs == <<39319, 50122, 50331, 32>>

\* chrono::Duration::from_std(d) is Ok (main.rs:50)
FromStdOk(d) == ~LimbsLess(ChronoMaxSecs, d)

ToStdOkMutant(d) == d > 0

\* chrono::Duration::to_std is Ok: the duration is not negative (main.rs:85)
ToStdOk(d) == d >= 0

DelayForMutant(clock, duration) == clock + duration - 1

\* delay_for(duration) called at clock: the instant at which the delay completes
DelayFor(clock, duration) == clock + duration

\* HeaderMap::try_from(&HashMap<String, String>) is Ok (main.rs:94)
HeaderMapOk(http_header) == \A h \in http_header : h[1] # "bad name"

(***************************************************************************)
(* The initial state: the command line is given, nothing has run.          *)
(***************************************************************************)
InitRest ==
    /\ source = "none"
    /\ resolved = None
    /\ logs = <<>>
    /\ shift_time = None
    /\ shifted_logs = <<>>
    /\ tasks = <<>>
    /\ idx = 0
    /\ now = 0
    /\ output = <<>>
    /\ exit_code = -1

Init ==
    /\ args \in [file : BOOLEAN, access_log : BOOLEAN, shift : ShiftArgs]
    /\ pc = "get_matches"
    /\ InitRest

(***************************************************************************)
(* main (main.rs:16-61).                                                   *)
(***************************************************************************)
\* process::exit, a returned Err (status 1) or a panic (status 101) of main:
\* the runtime is dropped and every task that has not finished is dropped
Exit(code) ==
    /\ pc' = "exit"
    /\ exit_code' = code
    /\ tasks' = [i \in DOMAIN tasks |->
                    IF tasks[i].status \in {"finished", "panicked"} THEN tasks[i]
                    ELSE [tasks[i] EXCEPT !.status = "dropped"]]

\* main.rs:23
UsageError(a) == ~a.file /\ ~a.access_log

\* main.rs:19-26
GetMatches ==
    /\ pc = "get_matches"
    /\ IF UsageError(args)
       THEN /\ output' = Append(output, <<"error", "please specify log filepath or access log text">>)
            /\ Exit(1)
       ELSE /\ pc' = "resolve"
            /\ UNCHANGED <<output, exit_code, tasks>>
    /\ UNCHANGED <<args, source, resolved, logs, shift_time, shifted_logs, idx, now>>

\* main.rs:28-36: the file is preferred to the literal text; unwrap panics on Err
Resolve ==
    /\ pc = "resolve"
    /\ \E log_text \in LogTexts, readable \in BOOLEAN :
          LET r == IF args.file THEN ResolveLogFile(readable, log_text)
                   ELSE ResolveLogText(log_text)
          IN  /\ args.file \/ readable
              /\ source' = IF args.file THEN "file" ELSE "text"
              /\ resolved' = Some([readable |-> readable, log_text |-> log_text])
              /\ IF r.kind = "ok"
                 THEN /\ logs' = r.logs
                      /\ pc' = "parse_time"
                      /\ UNCHANGED <<exit_code, tasks>>
                 ELSE /\ logs' = logs
                      /\ Exit(101)
    /\ UNCHANGED <<args, shift_time, shifted_logs, idx, now, output>>

\* main.rs:38
ShiftExpr(a) == IF a.shift = None THEN <<"0", "s">> ELSE a.shift[1]

ParseFailed(r) == r.kind # "ok"

\* main.rs:39: `?` returns the Err of parse_time; a panic unwinds main
ParseShift ==
    /\ pc = "parse_time"
    /\ \E r \in ParseTime(ShiftExpr(args)) :
          IF ParseFailed(r)
          THEN /\ shift_time' = shift_time
               /\ Exit(IF r.kind = "err" THEN 1 ELSE 101)
          ELSE /\ shift_time' = Some(r.secs)
               /\ pc' = "shift"
               /\ UNCHANGED <<exit_code, tasks>>
    /\ UNCHANGED <<args, source, resolved, logs, shifted_logs, idx, now, output>>

\* a closure that copies the record without its headers
ShiftedLogDroppingHeader(log, shift) ==
    [accessed_at |-> log.accessed_at + LimbsToNat(shift),
     url |-> log.url,
     http_method |-> log.http_method,
     http_header |-> {},
     http_body |-> log.http_body]

\* main.rs:49-55: the closure that builds the shifted record
ShiftedLog(log, shift) ==
    [accessed_at |-> log.accessed_at + LimbsToNat(shift),
     url |-> log.url,
     http_method |-> log.http_method,
     http_header |-> log.http_header,
     http_body |-> log.http_body]

\* main.rs:47-56: from_std(..).unwrap() runs once per record
ShiftLogs ==
    /\ pc = "shift"
    /\ IF logs # <<>> /\ ~FromStdOk(shift_time[1])
       THEN /\ shifted_logs' = shifted_logs
            /\ Exit(101)
       ELSE /\ shifted_logs' = [i \in DOMAIN logs |-> ShiftedLog(logs[i], shift_time[1])]
            /\ pc' = "spawn"
            /\ UNCHANGED <<exit_code, tasks>>
    /\ idx' = 1
    /\ UNCHANGED <<args, source, resolved, logs, shift_time, now, output>>

(***************************************************************************)
(* send_requests (main.rs:63-82).                                          *)
(***************************************************************************)
NewTask == [status |-> "spawned", wake |-> -1, request |-> <<>>, sends |-> 0,
            outcome |-> "none"]

\* main.rs:69-75
Spawn ==
    /\ pc = "spawn"
    /\ IF idx <= Len(shifted_logs)
       THEN /\ tasks' = Append(tasks, NewTask)
            /\ idx' = idx + 1
            /\ pc' = pc
       ELSE /\ tasks' = tasks
            /\ idx' = 1
            /\ pc' = "join"
    /\ UNCHANGED <<args, source, resolved, logs, shift_time, shifted_logs, now, output, exit_code>>

\* a join loop that stops on whichever task has panicked
JoinFailFast ==
    /\ pc = "join"
    /\ IF idx > Len(tasks)
       THEN /\ idx' = idx
            /\ Exit(0)
       ELSE \/ /\ tasks[idx].status = "finished"
               /\ idx' = idx + 1
               /\ UNCHANGED <<pc, exit_code, tasks>>
            \/ /\ \E k \in DOMAIN tasks : tasks[k].status = "panicked"
               /\ idx' = idx
               /\ Exit(101)
    /\ UNCHANGED <<args, source, resolved, logs, shift_time, shifted_logs, now, output>>

\* main.rs:77-81: task.await.unwrap() panics on the JoinError of a panicked task
Join ==
    /\ pc = "join"
    /\ IF idx > Len(tasks)
       THEN /\ idx' = idx
            /\ Exit(0)
       ELSE \/ /\ tasks[idx].status = "finished"
               /\ idx' = idx + 1
               /\ UNCHANGED <<pc, exit_code, tasks>>
            \/ /\ tasks[idx].status = "panicked"
               /\ idx' = idx
               /\ Exit(101)
    /\ UNCHANGED <<args, source, resolved, logs, shift_time, shifted_logs, now, output>>

(***************************************************************************)
(* schedule_request (main.rs:84-100), run by the task of record i.         *)
(***************************************************************************)
\* main.rs:85-90: the clock is read, the wait computed, the delay registered
TaskStart(i) ==
    /\ i \in DOMAIN tasks
    /\ tasks[i].status = "spawned"
    /\ LET duration == shifted_logs[i].accessed_at - now
       IN  IF ToStdOk(duration)
           THEN /\ tasks' = [tasks EXCEPT ![i].status = "delay",
                                          ![i].wake = DelayFor(now, duration)]
                /\ output' = output
           ELSE /\ tasks' = [tasks EXCEPT ![i].status = "panicked",
                                          ![i].outcome = "deadline_elapsed"]
                /\ output' = Append(output, <<i, "deadline_elapsed">>)
    /\ UNCHANGED <<args, pc, source, resolved, logs, shift_time, shifted_logs, idx, now,
                   exit_code>>

\* main.rs:90-96: the delay completes, the request is built and handed to the client
TaskSend(i) ==
    /\ i \in DOMAIN tasks
    /\ tasks[i].status = "delay"
    /\ now >= tasks[i].wake
    /\ LET log == shifted_logs[i]
       IN  IF HeaderMapOk(log.http_header)
           THEN /\ tasks' = [tasks EXCEPT ![i].status = "in_flight",
                                          ![i].sends = @ + 1,
                                          ![i].request = <<log.http_method, log.url,
                                                           log.http_header, log.http_body>>]
                /\ output' = output
           ELSE /\ tasks' = [tasks EXCEPT ![i].status = "panicked",
                                          ![i].outcome = "invalid_header"]
                /\ output' = Append(output, <<i, "invalid_header">>)
    /\ UNCHANGED <<args, pc, source, resolved, logs, shift_time, shifted_logs, idx, now,
                   exit_code>>

\* a task that goes back to its delay when the client returns an error
AfterResponseRetrying(response) ==
    IF response = "transport_error" THEN "delay" ELSE "finished"

\* a task that unwraps the result of the client
AfterResponseUnwrapping(response) ==
    IF response = "transport_error" THEN "panicked" ELSE "finished"

\* main.rs:96-99: the result of the client, Ok or Err, is printed and
\* schedule_request returns Ok
AfterResponse(response) == "finished"

\* main.rs:96-99: the client returns a response or an error; it is printed
TaskRespond(i) ==
    /\ i \in DOMAIN tasks
    /\ tasks[i].status = "in_flight"
    /\ \E response \in {"response", "transport_error"} :
          /\ tasks' = [tasks EXCEPT ![i].status = AfterResponse(response),
                                    ![i].outcome = response]
          /\ output' = Append(output, <<i, response>>)
    /\ UNCHANGED <<args, pc, source, resolved, logs, shift_time, shifted_logs, idx, now, exit_code>>

\* time passes while the process runs
Tick ==
    /\ pc # "exit"
    /\ now < MaxTime
    /\ now' = now + 1
    /\ UNCHANGED <<args, pc, source, resolved, logs, shift_time, shifted_logs, tasks, idx,
                   output, exit_code>>

Next ==
    \/ GetMatches
    \/ Resolve
    \/ ParseShift
    \/ ShiftLogs
    \/ Spawn
    \/ Join
    \/ \E i \in DOMAIN tasks : TaskStart(i)
    \/ \E i \in DOMAIN tasks : TaskSend(i)
    \/ \E i \in DOMAIN tasks : TaskRespond(i)
    \/ Tick

Spec == Init /\ [][Next]_vars

\* every step that can be taken is eventually taken: the runtime schedules
\* every ready task, timers fire, requests complete, and main keeps running
FairSpec ==
    /\ Spec
    /\ WF_vars(GetMatches) /\ WF_vars(Resolve) /\ WF_vars(ParseShift)
    /\ WF_vars(ShiftLogs) /\ WF_vars(Spawn) /\ WF_vars(Join) /\ WF_vars(Tick)
    /\ \A i \in 1..MaxLogs :
          WF_vars(TaskStart(i)) /\ WF_vars(TaskSend(i)) /\ WF_vars(TaskRespond(i))

(***************************************************************************)
(* The run cut short from outside.  main installs no signal handler and    *)
(* wraps send_requests in no cancellation or timeout (main.rs:15-61), so a *)
(* termination signal ends the process (status 130 for SIGINT) with the    *)
(* runtime and its tasks.                                                  *)
(***************************************************************************)
Cancel ==
    /\ pc # "exit"
    /\ Exit(130)
    /\ UNCHANGED <<args, source, resolved, logs, shift_time, shifted_logs, idx, now,
                   output>>

NextCancel == Next \/ Cancel

SpecCancel == Init /\ [][NextCancel]_vars

(***************************************************************************)
(* parse_time applied to one shift expression.                             *)
(***************************************************************************)
InitParse ==
    /\ args \in [file : {FALSE}, access_log : {TRUE}, shift : {Some(s) : s \in ParseInputs}]
    /\ pc = "parse_time"
    /\ InitRest

NextParse == ParseShift

SpecParse == InitParse /\ [][NextParse]_vars


(***************************************************************************)
(* Properties.                                                             *)
(***************************************************************************)
\* the sender has been invoked for record i
Sent(i) == tasks[i].request # <<>>

\* the fire time of record i: its recorded time plus the shift of the run
Deadline(i) == logs[i].accessed_at + LimbsToNat(shift_time[1])

\* the task of record j has failed: deadline elapsed, or transport error
Failed(j) == tasks[j].outcome \in {"deadline_elapsed", "transport_error"}

\* C1: a failed task never cancels another task: whenever some task has
\* failed, no other task has been dropped before producing its outcome.
C1_FailureIsolation ==
    \A i \in DOMAIN tasks, j \in DOMAIN tasks :
        (i # j /\ Failed(j)) => tasks[i].status # "dropped"

\* C2: once the dispatch run has ended, every record has produced an
\* outcome and the outcomes are reported one per record, in input order.
C2_CompleteOrderedReport ==
    (pc = "exit" /\ tasks # <<>>) =>
        /\ \A i \in DOMAIN tasks : tasks[i].outcome # "none"
        /\ Len(output) = Len(logs)
        /\ \A k \in DOMAIN output : output[k][1] = k

\* C3: a task that starts when the clock is strictly past its shifted
\* deadline ends with a deadline-elapsed error without building or sending
\* a request, and stays so; a task that starts at or before its deadline
\* (a wait of zero included) goes on to its delay.
C3_ElapsedNeverSends ==
    [][\A i \in DOMAIN tasks :
          /\ (tasks[i].status = "spawned" /\ tasks'[i].status \notin {"spawned", "dropped"}) =>
                IF shifted_logs[i].accessed_at < now
                THEN /\ tasks'[i].status = "panicked"
                     /\ tasks'[i].outcome = "deadline_elapsed"
                     /\ ~Sent(i)'
                ELSE tasks'[i].status = "delay"
          /\ (tasks[i].outcome = "deadline_elapsed") =>
                (tasks'[i] = tasks[i] /\ ~Sent(i))]_vars

C3_Witness ==
    \E i \in DOMAIN tasks :
        /\ tasks[i].status = "panicked"
        /\ tasks[i].outcome = "deadline_elapsed"
        /\ shifted_logs[i].accessed_at < now

\* C4: whenever the sender has been invoked for a record, the clock is at or
\* past that record's recorded time plus the shift.
C4_NeverBeforeDeadline ==
    \A i \in DOMAIN tasks : Sent(i) => now >= Deadline(i)

C4_Witness ==
    \E i \in DOMAIN tasks :
        /\ tasks[i].status = "in_flight"
        /\ now = Deadline(i)
        /\ LimbsToNat(shift_time[1]) > 0

\* C5: every task that starts with its deadline not in the past eventually
\* has the sender invoked with its record's method, URL, headers and body.
C5_EventuallySent ==
    \A i \in 1..MaxLogs :
        [](( /\ i \in DOMAIN tasks
             /\ tasks[i].status = "delay"
             /\ HeaderMapOk(shifted_logs[i].http_header) )
           => <>( /\ i \in DOMAIN tasks
                  /\ Sent(i)
                  /\ tasks[i].request = <<logs[i].http_method, logs[i].url,
                                          logs[i].http_header, logs[i].http_body>> ))

\* what was resolved cannot be decoded: the file cannot be read, the text is
\* not JSON, or some record has a field that does not parse
DecodeFails ==
    /\ resolved # None
    /\ LET r == resolved[1]
       IN  \/ ~r.readable
           \/ ~r.log_text.json
           \/ \E k \in DOMAIN r.log_text.json_logs :
                 TryFromJsonLog(r.log_text.json_logs[k]).kind = "err"

\* the shift expression of the run does not parse
ShiftFails == TimeTypeFromStr(ShiftExpr(args)).kind # "ok"

\* C6: when decoding fails or the shift expression does not parse, main
\* never reaches the shift of the records or send_requests, no task exists
\* and nothing is sent, and the exit status is not zero.
C6_StructuralErrorsFailFast ==
    /\ DecodeFails =>
          /\ pc = "exit" /\ exit_code # 0
          /\ tasks = <<>> /\ shifted_logs = <<>> /\ output = <<>>
    /\ ShiftFails =>
          /\ pc \in {"get_matches", "resolve", "parse_time", "exit"}
          /\ pc = "exit" => exit_code # 0
          /\ tasks = <<>> /\ shifted_logs = <<>>
          /\ \A k \in DOMAIN output : output[k][1] = "error"

C6_Witness ==
    /\ pc = "exit"
    /\ DecodeFails
    /\ resolved[1].readable /\ resolved[1].log_text.json
    /\ Len(resolved[1].log_text.json_logs) = 2
    /\ TryFromJsonLog(resolved[1].log_text.json_logs[1]).kind = "ok"

\* C7: when the process has ended and some task's outcome is a failure, the
\* exit status is not zero and every record's result has been reported.
C7_FailureExitStatus ==
    (pc = "exit" /\ \E j \in DOMAIN tasks : Failed(j)) =>
        /\ exit_code # 0
        /\ \A i \in DOMAIN tasks : tasks[i].outcome # "none"

\* the product of t by the factors, with as many limbs as it needs
RECURSIVE ExactChain(_, _)
ExactChain(t, fs) ==
    IF fs = <<>> THEN t ELSE ExactChain(MulLimbs(t, Head(fs), 0), Tail(fs))

\* s is <n><unit>: decimal digits of a number that fits u64, then a unit
WellFormedShift(s) ==
    /\ Len(s) >= 2
    /\ s[Len(s)] \in UnitChars
    /\ \A k \in 1..(Len(s) - 1) : s[k] \in DigitChars
    /\ AccumulateDigits(Zero64, SubSeq(s, 1, Len(s) - 1)).kind = "ok"

\* C8: for every <n><unit> with n fitting u64, parse_time succeeds and
\* returns exactly n times the unit's number of seconds.
C8_ExactScaling ==
    LET s == ShiftExpr(args)
    IN  (pc # "parse_time" /\ WellFormedShift(s)) =>
           /\ shift_time # None
           /\ Normalize(shift_time[1]) =
                 Normalize(ExactChain(AccumulateDigits(Zero64, SubSeq(s, 1, Len(s) - 1)).number,
                                      UnitFactors(s[Len(s)])))

\* s is not <digits><unit> (a numeric prefix written with a sign '+' is
\* left out: the claim does not say whether it is malformed)
MalformedShift(s) ==
    /\ ~( /\ Len(s) >= 2
          /\ s[Len(s)] \in UnitChars
          /\ \A k \in 1..(Len(s) - 1) : s[k] \in DigitChars )
    /\ ~(s # <<>> /\ Head(s) = "+")

\* C9: every malformed shift expression is rejected with an error value:
\* parse_time returns Err (main ends with status 1), never a duration and
\* never an abort.
C9_MalformedRejected ==
    (pc # "parse_time" /\ MalformedShift(ShiftExpr(args))) =>
        /\ pc = "exit"
        /\ exit_code = 1
        /\ shift_time = None

\* C10: a run is accepted only when exactly one of the literal text and
\* --file is given: with neither or both, main resolves no input and ends
\* with a status that is not zero.
C10_ExactlyOneInput ==
    (args.file = args.access_log) =>
        /\ pc \in {"get_matches", "exit"}
        /\ source = "none"
        /\ pc = "exit" => exit_code # 0

\* the objects of the text that was resolved
ResolvedObjects == resolved[1].log_text.json_logs

\* the positions of the objects from which no record can be built
InvalidObjects ==
    { k \in DOMAIN ResolvedObjects : TryFromJsonLog(ResolvedObjects[k]).kind = "err" }

\* the least position of an object from which no record can be built
FirstInvalid == CHOOSE k \in InvalidObjects : \A m \in InvalidObjects : k <= m

\* C11: once a readable text of JSON objects was resolved, from the file or
\* from the argument, either every object builds a record, and the records
\* of the run are those records, one per object and in the order of the
\* objects, or the result is the error of the first object that builds no
\* record, the run has no record at all and has stopped; the file and the
\* literal text give the same result on the same text.
C11_AllOrNothingInOrder ==
    (resolved # None /\ resolved[1].readable /\ resolved[1].log_text.json) =>
        LET text == resolved[1].log_text
            of_text == ResolveLogText(text)
            of_file == ResolveLogFile(TRUE, text)
        IN  /\ of_file = of_text
            /\ IF InvalidObjects = {}
               THEN /\ of_text.kind = "ok"
                    /\ logs = of_text.logs
                    /\ Len(logs) = Len(ResolvedObjects)
                    /\ \A k \in DOMAIN logs :
                          logs[k] = TryFromJsonLog(ResolvedObjects[k]).log
               ELSE /\ of_text = TryFromJsonLog(ResolvedObjects[FirstInvalid])
                    /\ logs = <<>>
                    /\ pc = "exit" /\ exit_code = 101

\* two different records were decoded from a file, in the order of the text
C11_Witness ==
    /\ resolved # None /\ source = "file"
    /\ Len(logs) = 2 /\ logs[1] # logs[2]
    /\ logs[1].accessed_at = 2
    /\ pc = "parse_time"

\* the task of record i has come to its end: it returned, it panicked, or
\* it was dropped with the runtime
Ended(i) == tasks[i].status \in {"finished", "panicked", "dropped"}

\* C12: there is never more than one task per record, the client is called
\* for a record at most once (the count of its calls is 0 or 1 and never
\* goes down), and a task that has come to its end, by failing or otherwise,
\* is never run again; once send_requests joins, every record has its task.
C12_OneTaskOneSend ==
    [][ /\ Len(tasks') <= Len(shifted_logs')
        /\ pc' = "join" => Len(tasks') = Len(shifted_logs')
        /\ \A i \in DOMAIN tasks' : tasks'[i].sends \in {0, 1}
        /\ \A i \in DOMAIN tasks :
              /\ i \in DOMAIN tasks'
              /\ tasks'[i].sends >= tasks[i].sends
              /\ Ended(i) => tasks'[i] = tasks[i] ]_vars

\* both records have their task, the client was called once for each, one
\* call ended in a transport error and the run is over
C12_Witness ==
    /\ pc = "exit"
    /\ Len(tasks) = 2
    /\ \A i \in DOMAIN tasks : tasks[i].sends = 1 /\ tasks[i].status = "finished"
    /\ tasks[1].outcome = "transport_error"

\* the task of record i was waiting for its deadline or had its request in
\* flight when the runtime was dropped
CutShort(i) == tasks[i].status = "dropped" /\ tasks[i].wake # -1

\* C13: when the run is cut short from outside while some task is waiting
\* or in flight, every record has a task with an outcome, and each task
\* that was waiting or in flight reports the outcome "cancelled".
C13_CancelledReported ==
    (pc = "exit" /\ exit_code = 130 /\ \E i \in DOMAIN tasks : CutShort(i)) =>
        /\ Len(tasks) = Len(logs)
        /\ \A i \in DOMAIN tasks :
              /\ tasks[i].outcome # "none"
              /\ CutShort(i) => tasks[i].outcome = "cancelled"

\* every task of the run that failed, failed with a transport error: none
\* found its deadline elapsed and none panicked on building its request
OnlyTransportErrors ==
    \A i \in DOMAIN tasks : tasks[i].outcome \notin {"deadline_elapsed", "invalid_header"}

\* C14: a task whose call of the client ended, in a response or in a
\* transport error, has finished normally with that result; and a run of
\* send_requests in which the only failures are transport errors ends with
\* every record's task joined and finished, and with Ok (status 0).
C14_TransportErrorIsOk ==
    /\ \A i \in DOMAIN tasks :
          tasks[i].outcome \in {"response", "transport_error"} =>
              tasks[i].status = "finished"
    /\ (pc = "exit" /\ tasks # <<>> /\ OnlyTransportErrors) =>
          /\ exit_code = 0
          /\ Len(tasks) = Len(logs)
          /\ idx = Len(tasks) + 1
          /\ \A i \in DOMAIN tasks : tasks[i].status = "finished"

\* send_requests returned Ok for two records whose calls of the client both
\* ended in a transport error
C14_Witness ==
    /\ pc = "exit" /\ exit_code = 0
    /\ Len(tasks) = 2
    /\ \A i \in DOMAIN tasks : tasks[i].outcome = "transport_error"

\* C15: every record has its task before send_requests joins any; and a
\* task that has begun to wait for its own deadline goes on to its own send
\* whatever the deadline, the position or the outcome of the other records:
\* it is waiting, in flight or finished, or it has panicked on its own
\* headers, and is never stopped because of another task.
C15_NoTaskWaitsOnAnother ==
    /\ pc = "join" => Len(tasks) = Len(shifted_logs)
    /\ \A i \in DOMAIN tasks :
          tasks[i].wake # -1 =>
              \/ tasks[i].status \in {"delay", "in_flight", "finished"}
              \/ tasks[i].outcome = "invalid_header"

\* C16: a run of send_requests in which no task found its deadline elapsed
\* when it started ends only with Ok (status 0), and only when the send of
\* every record has completed, no earlier than the deadline of any record.
C16_EndsOkAfterEverySend ==
    ( /\ pc = "exit" /\ tasks # <<>>
      /\ \A i \in DOMAIN tasks : tasks[i].outcome # "deadline_elapsed" ) =>
        /\ exit_code = 0
        /\ Len(tasks) = Len(logs)
        /\ \A i \in DOMAIN tasks :
              /\ tasks[i].status = "finished"
              /\ Sent(i)
              /\ now >= Deadline(i)

\* C17: when the run stops on a failed task, that task is the one the join
\* loop is at and it is the failed task of least index: every task before
\* it has finished, with its request sent and its result obtained.
C17_StopsOnLowestFailed ==
    (pc = "exit" /\ exit_code = 101 /\ tasks # <<>>) =>
        /\ idx \in DOMAIN tasks
        /\ tasks[idx].status = "panicked"
        /\ \A j \in 1..(idx - 1) :
              /\ tasks[j].status = "finished"
              /\ Sent(j)
              /\ tasks[j].outcome \in {"response", "transport_error"}

\* the task of record 2 failed first, the task of record 1 finished after
\* it, and the run stopped on record 2 only
C17_Witness ==
    /\ pc = "exit" /\ exit_code = 101
    /\ idx = 2
    /\ Len(output) = 2 /\ output[1][1] = 2 /\ output[2][1] = 1
    /\ tasks[1].status = "finished"
    /\ tasks[2].status = "panicked"

\* C18: the records handed to send_requests are the records decoded, as
\* many and in the same order, each with its fire time moved by the shift
\* of the run (0 s when no shift is given, 1 s for "1s") and with its URL,
\* method, headers and body unchanged.
C18_ShiftMovesOnlyFireTime ==
    (pc \in {"spawn", "join"} \/ tasks # <<>>) =>
        /\ Len(shifted_logs) = Len(logs)
        /\ \A i \in DOMAIN logs :
              /\ shifted_logs[i].accessed_at
                    = logs[i].accessed_at + LimbsToNat(shift_time[1])
              /\ ShiftExpr(args) = <<"0", "s">> =>
                    shifted_logs[i].accessed_at = logs[i].accessed_at
              /\ ShiftExpr(args) = <<"1", "s">> =>
                    shifted_logs[i].accessed_at = logs[i].accessed_at + 1
              /\ shifted_logs[i].url = logs[i].url
              /\ shifted_logs[i].http_method = logs[i].http_method
              /\ shifted_logs[i].http_header = logs[i].http_header
              /\ shifted_logs[i].http_body = logs[i].http_body

\* two different records, the first with a header and a body, shifted by 1 s
C18_Witness ==
    /\ pc = "join"
    /\ ShiftExpr(args) = <<"1", "s">>
    /\ Len(logs) = 2 /\ logs[1] # logs[2]
    /\ logs[1].http_header # {} /\ logs[1].http_body # ""
    /\ shifted_logs[1].accessed_at = 3

=============================================================================
